---------------------------- MODULE Spec2Model ----------------------------
(***************************************************************************)
(* Me-API Playground: a profile CRUD API over a relational store.          *)
(*                                                                         *)
(* The model follows a request through the middleware chain (requireAuth,  *)
(* validateProfile, the route handler wrapped in asyncHandler, and         *)
(* errorHandler) and follows a handler from one database call to the next: *)
(* a handler runs alone between two awaits, so the database calls are the  *)
(* points where the requests of two clients interleave.                    *)
(*                                                                         *)
(* Requests are those the rate limiters admit; the limiters' counters are  *)
(* not part of the model.                                                  *)
(***************************************************************************)
EXTENDS Integers, Sequences, FiniteSets, TLC

\* Highest id the model lets a table's sequence hand out: with one client, and
\* with two clients whose requests interleave.
MaxId == 3

MaxConcId == 2

\* Latest time the model's clock reaches.
MaxTime == 3

\* Highest id a table's sequence hands out while logins and the clock run.
MaxAuthId == 2

\* Highest id a table's sequence hands out while single rows are deleted.
MaxItemId == 3

\* Highest id a table's sequence hands out while the query endpoints are read.
MaxQueryId == 3

\* Highest id a table's sequence hands out while bodies of every shape arrive.
MaxValidId == 2

\* JWT_EXPIRES_IN, in ticks of the model's clock.
JWT_EXPIRES_IN == 2

\* The clients: their requests are in flight at the same time.
Procs == {"c1", "c2"}

\* JavaScript's undefined, for a field a body leaves out.
Undefined == "<undefined>"

-----------------------------------------------------------------------------
(* The store: four tables and their id sequences.                           *)

EmptyDb == [profiles |-> {}, skills |-> {}, projects |-> {}, work |-> {}]

FirstIds == [profile |-> 1, skill |-> 1, project |-> 1, work |-> 1]

\* The rows of a child table that belong to profile pid.
RowsOf(rows, pid) == {r \in rows : r.profileId = pid}

\* orderBy: { createdAt: 'desc' } over the profile table, as a sequence.
RECURSIVE NewestFirst(_)
NewestFirst(rows) ==
    IF rows = {} THEN <<>>
    ELSE LET top == CHOOSE r \in rows : \A o \in rows : o.createdAt <= r.createdAt
         IN  <<top>> \o NewestFirst(rows \ {top})

\* Rows in id order, as a sequence (the order a table scan returns them).
RECURSIVE ById(_)
ById(rows) ==
    IF rows = {} THEN <<>>
    ELSE LET lo == CHOOSE r \in rows : \A o \in rows : r.id <= o.id
         IN  <<lo>> \o ById(rows \ {lo})

-----------------------------------------------------------------------------
(* Errors and the error middleware.                                         *)

\* An error object as errorHandler reads it: its name, message, statusCode,
\* code and isOperational. A statusCode of 0 and a code of "" stand for a
\* property the error does not carry.
MkError(name, message, statusCode, code, isOperational) ==
    [name |-> name, message |-> message, statusCode |-> statusCode,
     code |-> code, isOperational |-> isOperational]

AppError(message, statusCode, code) ==
    MkError("Error", message, statusCode, code, TRUE)

\* Errors the database client raises: a known request error carries a code,
\* a rejected query argument does not.
PrismaKnownError(code) ==
    MkError("PrismaClientKnownRequestError", "prisma request failed", 0, code, FALSE)

PrismaValidationError ==
    MkError("PrismaClientValidationError", "Argument is missing", 0, "", FALSE)

\* A signed token: the key that signed it, the claims it embeds and its expiry.
NoToken == [sig |-> "", id |-> 0, username |-> "", role |-> "", exp |-> 0]

NoUser == [id |-> 0, username |-> "", role |-> ""]

\* The pagination block of a response that has none.
NoPagination == [limit |-> 0, offset |-> 0, total |-> 0, hasMore |-> FALSE]

\* The result buckets of a search, empty.
NoResults == [profiles |-> <<>>, projects |-> <<>>, skills |-> <<>>,
              workExperience |-> <<>>]

\* A response: status line and the JSON body's error and code ("" when the
\* body has none), plus the payload fields of the successful answers and
\* whether the body is a JSON object or a JSON array.
Response(status, error, code) ==
    [status |-> status, error |-> error, code |-> code,
     details |-> {}, message |-> "", profileId |-> 0, profiles |-> <<>>,
     skills |-> <<>>,
     hasToken |-> FALSE, token |-> NoToken, user |-> NoUser,
     shape |-> "object", projects |-> <<>>, pagination |-> NoPagination,
     results |-> NoResults]

Success(status, message) ==
    [Response(status, "", "") EXCEPT !.message = message]

\* if (err.code): the test that sends an error into the switch on database
\* error codes.
PrismaBranch(err) == err.code # ""

errorHandler(err) ==
    LET e1 == IF PrismaBranch(err)
              THEN CASE err.code = "P2002" ->
                            AppError("Duplicate field value", 400, "DUPLICATE_ENTRY")
                     [] err.code = "P2025" ->
                            AppError("Record not found", 404, "NOT_FOUND")
                     [] err.code = "P2003" ->
                            AppError("Foreign key constraint failed", 400,
                                     "FOREIGN_KEY_CONSTRAINT")
                     [] OTHER -> AppError("Database error", 500, "DATABASE_ERROR")
              ELSE err
        e2 == IF err.name = "JsonWebTokenError"
              THEN AppError("Invalid token", 401, "INVALID_TOKEN") ELSE e1
        e3 == IF err.name = "TokenExpiredError"
              THEN AppError("Token expired", 401, "TOKEN_EXPIRED") ELSE e2
        e3v == IF err.name = "ValidationError"
               THEN AppError(err.message, 400, "VALIDATION_ERROR") ELSE e3
        e4 == IF err.name = "CastError"
              THEN AppError("Invalid ID format", 400, "INVALID_ID") ELSE e3v
        e5 == IF ~e4.isOperational
              THEN AppError("Something went wrong", 500, "INTERNAL_ERROR") ELSE e4
    IN  Response(IF e5.statusCode = 0 THEN 500 ELSE e5.statusCode,
                 e5.message,
                 IF e5.code = "" THEN "INTERNAL_ERROR" ELSE e5.code)

-----------------------------------------------------------------------------
(* Authentication: the user store, login, and the gate on mutating         *)
(* requests.                                                               *)

StoredHash == "$2a$10$92IXUNpkjO0rOQ5byMi.Ye4oKoEa3Ro9llC/.og/at2.uheWG/igi"

users == { [id |-> 1, username |-> "admin", password |-> StoredHash,
            role |-> "admin"] }

JWT_SECRET == "your-secret-key-change-in-production"

\* A JSON value of a login body: a string, a number, or a missing field.
Str(text) == [type |-> "string", text |-> text]
Num(text) == [type |-> "number", text |-> text]
Undef     == [type |-> "undefined", text |-> ""]

\* !v of JavaScript: undefined, the empty string and 0 are falsy.
Falsy(v) ==
    \/ v.type = "undefined"
    \/ v.type = "string" /\ v.text = ""
    \/ v.type = "number" /\ v.text = "0"

\* bcrypt.compare(s, hash) for a string s: the stored hash is the hash of
\* "password" and of no other string of the model.
BcryptMatches(s, hash) == hash = StoredHash /\ s = "password"

\* jwt.sign(claims, secret, { expiresIn })
JwtSign(user, secret, time) ==
    [sig |-> secret, id |-> user.id, username |-> user.username,
     role |-> user.role, exp |-> time + JWT_EXPIRES_IN]

\* jwt.verify(token, secret): "" when the token verifies, else the error's name.
JwtVerifyIgnoreExpiration(token, secret, time) ==
    IF token.sig # secret THEN "JsonWebTokenError" ELSE ""

JwtVerify(token, secret, time) ==
    IF token.sig # secret THEN "JsonWebTokenError"
    ELSE IF time >= token.exp THEN "TokenExpiredError"
    ELSE ""

\* An Authorization header: the number of space-separated parts it has (0: no
\* header), its first part and its second.
NoHeader == [parts |-> 0, scheme |-> "", token |-> NoToken]

SchemeOnly(scheme) == [parts |-> 1, scheme |-> scheme, token |-> NoToken]

Credential(scheme, token) == [parts |-> 2, scheme |-> scheme, token |-> token]

\* authHeader && authHeader.split(' ')[1] is defined
HasFirstPart(header) == header.parts >= 1

HasTokenPart(header) == header.parts >= 2

\* authenticateToken: "next" when the request goes on, else the response.
authenticateToken(header, time) ==
    IF ~HasTokenPart(header)
    THEN [next |-> FALSE,
          res |-> Response(401, "Access denied. No token provided.", "NO_TOKEN")]
    ELSE IF JwtVerify(header.token, JWT_SECRET, time) # ""
    THEN [next |-> FALSE,
          res |-> Response(403, "Access denied. Invalid token.", "INVALID_TOKEN")]
    ELSE [next |-> TRUE, res |-> Response(0, "", "")]

\* The methods requireAuth lets through without a token.
SkipsAuth(method) == method = "GET"

requireAuth(method, header, time) ==
    IF SkipsAuth(method)
    THEN [next |-> TRUE, res |-> Response(0, "", "")]
    ELSE authenticateToken(header, time)

\* login: the response to a body's username and password at a time.
login(username, password, time) ==
    IF Falsy(username) \/ Falsy(password)
    THEN Response(400, "Username and password are required", "MISSING_CREDENTIALS")
    ELSE LET found == {u \in users : username.type = "string"
                                     /\ u.username = username.text}
         IN  IF found = {}
             THEN Response(401, "Invalid credentials", "INVALID_CREDENTIALS")
             ELSE LET user == CHOOSE u \in found : TRUE
                  IN  IF password.type # "string"
                      THEN \* bcrypt.compare rejects a non-string: the catch block
                           Response(500, "Internal server error", "LOGIN_ERROR")
                      ELSE IF ~BcryptMatches(password.text, user.password)
                      THEN Response(401, "Invalid credentials", "INVALID_CREDENTIALS")
                      ELSE [Success(200, "Login successful") EXCEPT
                              !.hasToken = TRUE,
                              !.token = JwtSign(user, JWT_SECRET, time),
                              !.user = [id |-> user.id, username |-> user.username,
                                        role |-> user.role]]

-----------------------------------------------------------------------------
(* Request bodies and validateProfile.                                      *)

\* A collection field of a body: left out, or an array of elements.
Absent == [kind |-> "undefined", items |-> <<>>]

Arr(items) == [kind |-> "array", items |-> items]

\* A skill element: a plain string, or an object with a name and a level
\* (level 0: the object has no level, or a falsy one).
SkillStr(name) == [type |-> "string", name |-> name, level |-> 0]

SkillObj(name, level) == [type |-> "object", name |-> name, level |-> level]

\* A text of 501 characters.
LongText == "Lorem ipsum (501 characters)"

\* Lengths of the strings the model's bodies are built from, after trim().
TrimmedLen(text) ==
    CASE text = Undefined -> 0
      [] text = ""        -> 0
      [] text = "  "      -> 0
      [] text = "A"       -> 1
      [] text = LongText  -> 501
      [] OTHER            -> 8

\* value.length of the same strings: blanks count.
StrLen(text) == IF text = "  " THEN 2 ELSE TrimmedLen(text)

\* isEmail() and normalizeEmail() on the model's addresses: normalizeEmail
\* lower-cases the address.
IsEmail(text) == text \in {"a@x.io", "A@x.io", "b@x.io"}

NormalizeEmail(text) == IF text = "A@x.io" THEN "a@x.io" ELSE text

\* The custom rule of body('skills.*').
SkillElementOk(skill) ==
    IF skill.type = "string"
    THEN StrLen(skill.name) >= 1 /\ StrLen(skill.name) <= 50
    ELSE /\ skill.name # Undefined /\ skill.name # ""
         /\ StrLen(skill.name) >= 1 /\ StrLen(skill.name) <= 50

\* .optional() then a length rule: a field left out passes.
OptionalLenUnchecked(text, min, max) == TRUE

OptionalLen(text, min, max) ==
    text = Undefined \/ (TrimmedLen(text) >= min /\ TrimmedLen(text) <= max)

\* The fields of a body that fail a rule of validateProfile.
ValidationDetails(body) ==
    {f \in {"name", "email", "skills", "skills.*", "projects", "projects.*.title",
            "projects.*.description", "workExperience",
            "workExperience.*.company", "workExperience.*.position"} :
       CASE f = "name"  -> ~(TrimmedLen(body.name) >= 2 /\ TrimmedLen(body.name) <= 100)
         [] f = "email" -> ~IsEmail(body.email)
         [] f = "skills" -> body.skills.kind \notin {"undefined", "array"}
         [] f = "skills.*" ->
              \E i \in DOMAIN body.skills.items : ~SkillElementOk(body.skills.items[i])
         [] f = "projects" -> body.projects.kind \notin {"undefined", "array"}
         [] f = "projects.*.title" ->
              \E i \in DOMAIN body.projects.items :
                  ~OptionalLen(body.projects.items[i].title, 1, 100)
         [] f = "projects.*.description" ->
              \E i \in DOMAIN body.projects.items :
                  ~OptionalLen(body.projects.items[i].description, 0, 500)
         [] f = "workExperience" -> body.workExperience.kind \notin {"undefined", "array"}
         [] f = "workExperience.*.company" ->
              \E i \in DOMAIN body.workExperience.items :
                  ~OptionalLen(body.workExperience.items[i].company, 1, 100)
         [] f = "workExperience.*.position" ->
              \E i \in DOMAIN body.workExperience.items :
                  ~OptionalLen(body.workExperience.items[i].position, 1, 100)}

\* The body the handler receives: the sanitizers have rewritten req.body.
Sanitized(body) == [body EXCEPT !.email = NormalizeEmail(body.email)]

\* handleValidationErrors
handleValidationErrors(body) ==
    IF ValidationDetails(body) # {}
    THEN [next |-> FALSE,
          res |-> [Response(400, "Validation failed", "VALIDATION_ERROR")
                     EXCEPT !.details = ValidationDetails(body)]]
    ELSE [next |-> TRUE, res |-> Response(0, "", "")]

\* The query string of a request: each parameter's text, or Undefined.
Query(limit, offset, type, q, skill) ==
    [limit |-> limit, offset |-> offset, type |-> type, q |-> q, skill |-> skill]

NoQuery == Query(Undefined, Undefined, Undefined, Undefined, Undefined)

\* parseInt(text): the integer a text starts with, or NaN.
ParseInt(text) ==
    CASE text = "0"   -> [nan |-> FALSE, n |-> 0]
      [] text = "1"   -> [nan |-> FALSE, n |-> 1]
      [] text = "2"   -> [nan |-> FALSE, n |-> 2]
      [] text = "3"   -> [nan |-> FALSE, n |-> 3]
      [] text = "101" -> [nan |-> FALSE, n |-> 101]
      [] text = "-1"  -> [nan |-> FALSE, n |-> 0 - 1]
      [] OTHER        -> [nan |-> TRUE, n |-> 0]

\* x || fallback, for a number x: NaN and 0 are falsy.
OrElse(x, fallback) == IF x.nan \/ x.n = 0 THEN fallback ELSE x.n

Min(a, b) == IF a <= b THEN a ELSE b

Max(a, b) == IF a >= b THEN a ELSE b

\* isInt(): the whole text is an integer.
IsInt(text) == text \in {"0", "1", "2", "3", "101", "-1"}

\* .optional().isInt({ min }) and .optional().isInt({ min, max })
OptionalIntFrom(text, min) ==
    text = Undefined \/ (IsInt(text) /\ ParseInt(text).n >= min)

OptionalInt(text, min, max) ==
    text = Undefined \/ (IsInt(text) /\ ParseInt(text).n >= min /\ ParseInt(text).n <= max)

\* The parameters of a query string that fail a rule of validateQuery.
QueryDetails(query) ==
    {f \in {"limit", "offset", "q", "type", "skill"} :
       CASE f = "limit"  -> ~OptionalInt(query.limit, 1, 100)
         [] f = "offset" -> ~OptionalIntFrom(query.offset, 0)
         [] f = "q"      -> ~OptionalLen(query.q, 1, 100)
         [] f = "type"   -> query.type \notin {Undefined, "all", "profiles", "projects",
                                                "skills", "work"}
         [] f = "skill"  -> ~OptionalLen(query.skill, 1, 50)}

\* validateQuery: its rules, then handleValidationErrors.
validateQuery(query) ==
    IF QueryDetails(query) # {}
    THEN [next |-> FALSE,
          res |-> [Response(400, "Validation failed", "VALIDATION_ERROR")
                     EXCEPT !.details = QueryDetails(query)]]
    ELSE [next |-> TRUE, res |-> Response(0, "", "")]

\* paginate: req.pagination
paginate(query) ==
    [limit  |-> Min(OrElse(ParseInt(query.limit), 10), 100),
     offset |-> Max(OrElse(ParseInt(query.offset), 0), 0)]

-----------------------------------------------------------------------------
(* The database schema's rules and the database calls of the handlers.     *)
(* A store is the four tables with their id sequences.                     *)

\* Profile.email is unique: whether another row than selfId holds the email.
NoUniqueIndex(profiles, email, selfId) == FALSE

EmailTaken(profiles, email, selfId) ==
    \E r \in profiles : r.email = email /\ r.id # selfId

\* The required columns of the child tables.
SkillColumnsOk(d) == d.skillName # Undefined

ProjectColumnsOk(d) == d.title # Undefined

WorkColumnsOk(d) ==
    d.company # Undefined /\ d.position # Undefined /\ d.startDate # Undefined

\* The child rows a deleted profile takes with it (onDelete: Cascade).
CascadeKeep(rows, deleted) == {r \in rows : r.profileId \notin deleted}

\* The row data the handlers build from a body's elements.
SkillLevel(skill) ==
    IF skill.type = "string" THEN 1 ELSE IF skill.level = 0 THEN 1 ELSE skill.level

SkillData(skill) == [skillName |-> skill.name, proficiencyLevel |-> SkillLevel(skill)]

ProjectData(project) == [title |-> project.title, description |-> project.description]

WorkData(work) ==
    [company |-> work.company, position |-> work.position,
     startDate |-> work.start_date]

\* x && Array.isArray(x) ? x.map(...) : nothing
ItemsAfterFirst(field) ==
    IF field.kind = "array" THEN SubSeq(field.items, 2, Len(field.items)) ELSE <<>>

ItemsGiven(field) == IF field.kind = "array" THEN field.items ELSE <<>>

SkillsOf(body) ==
    [i \in DOMAIN ItemsGiven(body.skills) |-> SkillData(ItemsGiven(body.skills)[i])]

ProjectsOf(body) ==
    [i \in DOMAIN ItemsGiven(body.projects) |-> ProjectData(ItemsGiven(body.projects)[i])]

WorkOf(body) ==
    [i \in DOMAIN ItemsGiven(body.workExperience) |->
        WorkData(ItemsGiven(body.workExperience)[i])]

\* Whether every child row of a body has its required columns.
ChildrenOk(body) ==
    /\ \A i \in DOMAIN SkillsOf(body) : SkillColumnsOk(SkillsOf(body)[i])
    /\ \A i \in DOMAIN ProjectsOf(body) : ProjectColumnsOk(ProjectsOf(body)[i])
    /\ \A i \in DOMAIN WorkOf(body) : WorkColumnsOk(WorkOf(body)[i])

\* The rows an insert of datas adds for profile pid, with ids from first on.
SkillRows(datas, pid, first) ==
    {[id |-> first + i - 1, profileId |-> pid, skillName |-> datas[i].skillName,
      proficiencyLevel |-> datas[i].proficiencyLevel] : i \in DOMAIN datas}

ProjectRows(datas, pid, first) ==
    {[id |-> first + i - 1, profileId |-> pid, title |-> datas[i].title,
      description |-> datas[i].description] : i \in DOMAIN datas}

WorkRows(datas, pid, first) ==
    {[id |-> first + i - 1, profileId |-> pid, company |-> datas[i].company,
      position |-> datas[i].position, startDate |-> datas[i].startDate] :
       i \in DOMAIN datas}

\* A store with the child rows of a body inserted for profile pid.
WithChildren(S, body, pid) ==
    [db  |-> [S.db EXCEPT
                !.skills = @ \cup SkillRows(SkillsOf(body), pid, S.ids.skill),
                !.projects = @ \cup ProjectRows(ProjectsOf(body), pid, S.ids.project),
                !.work = @ \cup WorkRows(WorkOf(body), pid, S.ids.work)],
     ids |-> [S.ids EXCEPT
                !.skill = @ + Len(SkillsOf(body)),
                !.project = @ + Len(ProjectsOf(body)),
                !.work = @ + Len(WorkOf(body))]]

\* A store with a profile row of the body's scalar fields inserted.
WithProfile(S, body) ==
    [db  |-> [S.db EXCEPT !.profiles = @ \cup
                {[id |-> S.ids.profile, name |-> body.name, email |-> body.email,
                  createdAt |-> S.ids.profile]}],
     ids |-> [S.ids EXCEPT !.profile = @ + 1]]

NoError == MkError("", "", 0, "", FALSE)

\* prisma.profile.create with nested creates: one statement, all rows or none.
ProfileCreateSplit(S, body) ==
    IF EmailTaken(S.db.profiles, body.email, 0)
    THEN [err |-> PrismaKnownError("P2002"), S |-> S, id |-> 0]
    ELSE IF ~ChildrenOk(body)
    THEN [err |-> PrismaValidationError, S |-> WithProfile(S, body), id |-> 0]
    ELSE [err |-> NoError, S |-> WithChildren(WithProfile(S, body), body, S.ids.profile),
          id |-> S.ids.profile]

ProfileCreate(S, body) ==
    IF ~ChildrenOk(body)
    THEN [err |-> PrismaValidationError, S |-> S, id |-> 0]
    ELSE IF EmailTaken(S.db.profiles, body.email, 0)
    THEN [err |-> PrismaKnownError("P2002"), S |-> S, id |-> 0]
    ELSE [err |-> NoError, S |-> WithChildren(WithProfile(S, body), body, S.ids.profile),
          id |-> S.ids.profile]

\* prisma.profile.findFirst({ where: { email } }): the ids of the matches.
FindByEmail(db, email) == {r.id : r \in {q \in db.profiles : q.email = email}}

\* prisma.profile.findFirst({ orderBy: { createdAt: 'desc' } }): the id of the
\* profile created last, 0 when there is none.
FindEarliest(db) ==
    IF db.profiles = {} THEN 0 ELSE NewestFirst(db.profiles)[Len(NewestFirst(db.profiles))].id

FindLatest(db) ==
    IF db.profiles = {} THEN 0 ELSE NewestFirst(db.profiles)[1].id

\* prisma.profile.deleteMany({}): which profile rows go.
DeleteLatestOnly(db) == IF db.profiles = {} THEN {} ELSE {FindLatest(db)}

DeleteManyWhere(db) == {r.id : r \in db.profiles}

DeleteAllProfiles(db) ==
    LET gone == DeleteManyWhere(db)
    IN  [count |-> Cardinality(gone),
         db |-> [profiles |-> {r \in db.profiles : r.id \notin gone},
                 skills   |-> CascadeKeep(db.skills, gone),
                 projects |-> CascadeKeep(db.projects, gone),
                 work     |-> CascadeKeep(db.work, gone)]]

\* The statements of PUT's transaction. Each takes and returns the store the
\* transaction sees.

\* tx.profile.update({ where: { id }, data })
ProfileUpdateAnyId(S, pid, body) ==
    IF EmailTaken(S.db.profiles, body.email, pid)
    THEN [err |-> PrismaKnownError("P2002"), S |-> S]
    ELSE [err |-> NoError,
          S |-> [S EXCEPT !.db.profiles =
                   {IF r.id = pid
                    THEN [r EXCEPT !.name = body.name, !.email = body.email]
                    ELSE r : r \in S.db.profiles}]]

ProfileUpdate(S, pid, body) ==
    IF ~\E r \in S.db.profiles : r.id = pid
    THEN [err |-> PrismaKnownError("P2025"), S |-> S]
    ELSE IF EmailTaken(S.db.profiles, body.email, pid)
    THEN [err |-> PrismaKnownError("P2002"), S |-> S]
    ELSE [err |-> NoError,
          S |-> [S EXCEPT !.db.profiles =
                   {IF r.id = pid
                    THEN [r EXCEPT !.name = body.name, !.email = body.email]
                    ELSE r : r \in S.db.profiles}]]

\* tx.skill.deleteMany, tx.project.deleteMany, tx.workExperience.deleteMany,
\* each where { profileId }
DeleteChildrenKeepSkills(S, pid) ==
    [S EXCEPT !.db.projects = @ \ RowsOf(@, pid),
              !.db.work = @ \ RowsOf(@, pid)]

DeleteChildren(S, pid) ==
    [S EXCEPT !.db.skills = @ \ RowsOf(@, pid),
              !.db.projects = @ \ RowsOf(@, pid),
              !.db.work = @ \ RowsOf(@, pid)]

\* tx.skill.createMany, tx.project.createMany, tx.workExperience.createMany,
\* in this order; the first that fails ends the callback, the rows of the
\* earlier ones written.
InsertChildren(S, pid, body) ==
    LET s1 == [S EXCEPT !.db.skills = @ \cup SkillRows(SkillsOf(body), pid, S.ids.skill),
                        !.ids.skill = @ + Len(SkillsOf(body))]
        s2 == [s1 EXCEPT !.db.projects =
                             @ \cup ProjectRows(ProjectsOf(body), pid, S.ids.project),
                         !.ids.project = @ + Len(ProjectsOf(body))]
        s3 == [s2 EXCEPT !.db.work = @ \cup WorkRows(WorkOf(body), pid, S.ids.work),
                         !.ids.work = @ + Len(WorkOf(body))]
    IN  IF \E i \in DOMAIN SkillsOf(body) : ~SkillColumnsOk(SkillsOf(body)[i])
        THEN [err |-> PrismaValidationError, S |-> S]
        ELSE IF \E i \in DOMAIN ProjectsOf(body) : ~ProjectColumnsOk(ProjectsOf(body)[i])
        THEN [err |-> PrismaValidationError, S |-> s1]
        ELSE IF \E i \in DOMAIN WorkOf(body) : ~WorkColumnsOk(WorkOf(body)[i])
        THEN [err |-> PrismaValidationError, S |-> s2]
        ELSE [err |-> NoError, S |-> s3]

\* What the other clients see of the tables after a statement of an open
\* transaction: the statements go through the transaction's client tx, so the
\* committed tables stay as they are until the callback returns.
Autocommit(committed, written) == written

Isolated(committed, written) == committed

\* GET /api/skills: the skills (of one profile, or of all for profileId 0),
\* orderBy: { skillName: 'asc' }.
SkillNameRank(text) ==
    CASE text = "Go" -> 1 [] text = "JS" -> 2 [] text = "Py" -> 3 [] OTHER -> 4

RECURSIVE ByName(_)
ByName(rows) ==
    IF rows = {} THEN <<>>
    ELSE LET lo == CHOOSE r \in rows :
                      \A o \in rows :
                         \/ SkillNameRank(r.skillName) < SkillNameRank(o.skillName)
                         \/ /\ SkillNameRank(r.skillName) = SkillNameRank(o.skillName)
                            /\ r.id <= o.id
         IN  <<lo>> \o ByName(rows \ {lo})

SkillList(db, profileId) ==
    LET rows == ByName(IF profileId = 0 THEN db.skills ELSE RowsOf(db.skills, profileId))
    IN  [i \in DOMAIN rows |->
            [name |-> rows[i].skillName, proficiency |-> rows[i].proficiencyLevel]]

\* GET /api/profile: the response body for the profile rows, newest first.
RECURSIVE LatestStartFirst(_)
DateRank(text) ==
    CASE text = "2021-01" -> 1 [] text = "2023-01" -> 2 [] OTHER -> 0

LatestStartFirst(rows) ==
    IF rows = {} THEN <<>>
    ELSE LET top == CHOOSE r \in rows :
                       \A o \in rows :
                          \/ DateRank(o.startDate) < DateRank(r.startDate)
                          \/ DateRank(o.startDate) = DateRank(r.startDate) /\ r.id <= o.id
         IN  <<top>> \o LatestStartFirst(rows \ {top})

TransformProfile(db, profile) ==
    LET skills == ById(RowsOf(db.skills, profile.id))
        projects == ById(RowsOf(db.projects, profile.id))
        work == LatestStartFirst(RowsOf(db.work, profile.id))
    IN  [id |-> profile.id, name |-> profile.name, email |-> profile.email,
         created_at |-> profile.createdAt,
         skills |-> [i \in DOMAIN skills |-> skills[i].skillName],
         skillsWithLevel |->
             [i \in DOMAIN skills |->
                 [skill_name |-> skills[i].skillName,
                  proficiency_level |-> skills[i].proficiencyLevel]],
         projects |->
             [i \in DOMAIN projects |->
                 [id |-> projects[i].id, title |-> projects[i].title,
                  description |-> projects[i].description]],
         workExperience |->
             [i \in DOMAIN work |->
                 [id |-> work[i].id, company |-> work[i].company,
                  position |-> work[i].position, start_date |-> work[i].startDate]]]

TransformedProfiles(db) ==
    LET rows == NewestFirst(db.profiles)
    IN  [i \in DOMAIN rows |-> TransformProfile(db, rows[i])]

\* The search terms, in lower case, that occur in a stored text.
TermsIn(text) ==
    CASE text = "JS"          -> {"js"}
      [] text = "Py"          -> {"py"}
      [] text = "Go"          -> {"go"}
      [] text = "Site"        -> {"site"}
      [] text = "A web site"  -> {"site", "web"}
      [] text = "App"         -> {"app"}
      [] text = "A phone app" -> {"app", "phone"}
      [] text = "Tech Corp"   -> {"tech"}
      [] text = "Developer"   -> {"dev"}
      [] text = "JavaScript"  -> {"javascript"}
      [] text = "Python"      -> {"python"}
      [] text = "Node.js"     -> {"node"}
      [] text = "JavaScript Project" -> {"javascript"}
      [] text = "A project built with JavaScript" -> {"javascript"}
      [] text = "Python Project" -> {"python"}
      [] text = "A project built with Python" -> {"python"}
      [] OTHER                -> {}

Lower(text) ==
    CASE text = "JS" -> "js" [] text = "SITE" -> "site" [] text = "Site" -> "site"
      [] text = "JavaScript" -> "javascript"
      [] OTHER -> text

\* { contains: term, mode: 'insensitive' }
Contains(text, term) == Lower(term) \in TermsIn(text)

\* take and skip over a list.
Page(rows, skip, take) ==
    SubSeq(rows, skip + 1, Min(Len(rows), skip + take))

\* orderBy: { createdAt: 'desc' } over the project table: a later insert has
\* a higher id.
RECURSIVE NewestProjectsFirst(_)
NewestProjectsFirst(rows) ==
    IF rows = {} THEN <<>>
    ELSE LET top == CHOOSE r \in rows : \A o \in rows : o.id <= r.id
         IN  <<top>> \o NewestProjectsFirst(rows \ {top})

\* GET /api/projects: the where clause of the skill filter.
ProjectsWhere(db, skill) ==
    IF skill \in {Undefined, ""} THEN db.projects
    ELSE {r \in db.projects :
            \E sk \in RowsOf(db.skills, r.profileId) : Contains(sk.skillName, skill)}

ProfileName(db, pid) ==
    (CHOOSE r \in db.profiles : r.id = pid).name

TransformProjects(db, rows) ==
    [i \in DOMAIN rows |->
        [id |-> rows[i].id, title |-> rows[i].title,
         description |-> rows[i].description,
         profile_name |-> ProfileName(db, rows[i].profileId)]]

\* hasMore of the pagination block.
HasMoreInclusive(offset, limit, totalCount) == offset + limit <= totalCount

HasMore(offset, limit, totalCount) == offset + limit < totalCount

\* The body of GET /api/projects for a query that passed validateQuery.
ProjectsResponse(db, query) ==
    LET pg == paginate(query)
        matching == ProjectsWhere(db, query.skill)
        projects == Page(NewestProjectsFirst(matching), pg.offset, pg.limit)
        totalCount == Cardinality(matching)
    IN  [Success(200, "") EXCEPT
           !.projects = TransformProjects(db, projects),
           !.pagination = [limit |-> pg.limit, offset |-> pg.offset,
                           total |-> totalCount,
                           hasMore |-> HasMore(pg.offset, pg.limit, totalCount)]]

\* GET /api/skills/top: groupBy skillName with _count and _avg; the average
\* is kept in tenths, Math.round(avg * 10).
RECURSIVE SumLevels(_)
SumLevels(rows) ==
    IF rows = {} THEN 0
    ELSE LET r == CHOOSE x \in rows : TRUE
         IN  r.proficiencyLevel + SumLevels(rows \ {r})

SkillGroups(db) ==
    {LET rows == {r \in db.skills : r.skillName = name}
     IN  [name |-> name, frequency |-> Cardinality(rows),
          averageProficiency |->
              (20 * SumLevels(rows) + Cardinality(rows)) \div (2 * Cardinality(rows))] :
       name \in {r.skillName : r \in db.skills}}

\* The orders the database may return the groups in under
\* orderBy: { _count: { skillName: 'desc' } }: groups of equal count come in
\* any order.
GroupOrders(groups) ==
    {f \in [1..Cardinality(groups) -> groups] :
        /\ \A i, j \in DOMAIN f : i # j => f[i] # f[j]
        /\ \A i, j \in DOMAIN f : i < j => f[i].frequency >= f[j].frequency}

TopLimit(query) ==
    Min(IF query.limit = Undefined THEN 10 ELSE ParseInt(query.limit).n, 50)

\* GET /api/search: the rows of each category that contain the term.
RECURSIVE HighestLevelFirst(_)
HighestLevelFirst(rows) ==
    IF rows = {} THEN <<>>
    ELSE LET top == CHOOSE r \in rows :
                       \A o \in rows :
                          \/ o.proficiencyLevel < r.proficiencyLevel
                          \/ o.proficiencyLevel = r.proficiencyLevel /\ r.id <= o.id
         IN  <<top>> \o HighestLevelFirst(rows \ {top})

SearchProfiles(db, term, skip, take) ==
    LET rows == Page(ById({r \in db.profiles :
                             Contains(r.name, term) \/ Contains(r.email, term)}),
                     skip, take)
    IN  [i \in DOMAIN rows |->
            [id |-> rows[i].id, name |-> rows[i].name, email |-> rows[i].email]]

SearchProjects(db, term, skip, take) ==
    LET rows == Page(NewestProjectsFirst(
                        {r \in db.projects :
                            Contains(r.title, term) \/ Contains(r.description, term)}),
                     skip, take)
    IN  [i \in DOMAIN rows |->
            [id |-> rows[i].id, title |-> rows[i].title,
             description |-> rows[i].description]]

SearchSkills(db, term, skip, take) ==
    LET rows == Page(HighestLevelFirst(
                        {r \in db.skills : Contains(r.skillName, term)}),
                     skip, take)
    IN  [i \in DOMAIN rows |->
            [skill_name |-> rows[i].skillName,
             proficiency_level |-> rows[i].proficiencyLevel]]

SearchWork(db, term, skip, take) ==
    LET rows == Page(LatestStartFirst(
                        {r \in db.work :
                            Contains(r.company, term) \/ Contains(r.position, term)}),
                     skip, take)
    IN  [i \in DOMAIN rows |->
            [id |-> rows[i].id, company |-> rows[i].company,
             position |-> rows[i].position, start_date |-> rows[i].startDate]]

\* if (type === 'all' || type === category)
RunsAlways(type, category) == TRUE

Runs(type, category) == type = "all" \/ type = category

\* The body of GET /api/search. A query that runs with a negative skip is
\* rejected by the database client, and the catch answers 500.
SearchResponse(db, query) ==
    LET type == IF query.type = Undefined THEN "all" ELSE query.type
        take == IF query.limit = Undefined THEN 20 ELSE ParseInt(query.limit).n
        skip == IF query.offset = Undefined THEN 0 ELSE ParseInt(query.offset).n
        runs(category) == Runs(type, category)
    IN  IF query.q = Undefined \/ TrimmedLen(query.q) = 0
        THEN Response(400, "Search query is required", "")
        ELSE IF skip < 0 /\ \E c \in {"profiles", "projects", "skills", "work"} : runs(c)
        THEN Response(500, "Failed to perform search", "")
        ELSE [Success(200, "") EXCEPT
                !.results =
                  [profiles |-> IF runs("profiles")
                                THEN SearchProfiles(db, query.q, skip, take) ELSE <<>>,
                   projects |-> IF runs("projects")
                                THEN SearchProjects(db, query.q, skip, take) ELSE <<>>,
                   skills |-> IF runs("skills")
                              THEN SearchSkills(db, query.q, skip, take) ELSE <<>>,
                   workExperience |-> IF runs("work")
                                      THEN SearchWork(db, query.q, skip, take) ELSE <<>>],
                !.pagination = [NoPagination EXCEPT !.limit = take, !.offset = skip]]

-----------------------------------------------------------------------------
(* The inputs of the model.                                                 *)

Project1 == [title |-> "Site", description |-> "A web site"]

Work1 == [company |-> "Tech Corp", position |-> "Developer", start_date |-> "2023-01"]

WorkNoStart == [company |-> "Freelance", position |-> "Developer",
                start_date |-> Undefined]

\* The collections of a body, by kind of body.
Kits ==
    { [name |-> "Ann", skills |-> Arr(<<SkillStr("JS"), SkillObj("Py", 3)>>),
       projects |-> Arr(<<Project1>>), workExperience |-> Arr(<<Work1>>)],
      [name |-> "Bob", skills |-> Arr(<<>>), projects |-> Absent,
       workExperience |-> Absent],
      [name |-> "Cyd", skills |-> Arr(<<SkillStr("Go")>>), projects |-> Arr(<<>>),
       workExperience |-> Arr(<<>>)],
      [name |-> "Dee", skills |-> Arr(<<SkillObj("Go", 0)>>),
       projects |-> Arr(<<Project1>>), workExperience |-> Arr(<<WorkNoStart>>)] }

BodyOf(kit, email) ==
    [name |-> kit.name, email |-> email, skills |-> kit.skills,
     projects |-> kit.projects, workExperience |-> kit.workExperience]

\* The emails each kind of body comes with.
EmailsOf(name) ==
    CASE name = "Ann" -> {"a@x.io", "A@x.io"}
      [] name = "Bob" -> {"b@x.io"}
      [] name = "Cyd" -> {"a@x.io", "b@x.io"}
      [] OTHER        -> {"b@x.io"}

ValidBodies ==
    UNION {{BodyOf(k, e) : e \in EmailsOf(k.name)} : k \in Kits}

InvalidBodies ==
    { [name |-> "", email |-> "invalid-email", skills |-> Absent,
       projects |-> Absent, workExperience |-> Absent] }

Bodies == ValidBodies \cup InvalidBodies

\* A value that is not an array where an array is expected.
NotArray == [kind |-> "number", items |-> <<>>]

Shape(name, email, skills, projects, workExperience) ==
    [name |-> name, email |-> email, skills |-> skills, projects |-> projects,
     workExperience |-> workExperience]

\* Elements that lack a field, or carry one that is too short or too long.
ProjectNoTitle == [title |-> Undefined, description |-> "A web site"]

ProjectNoDescription == [title |-> "Site", description |-> Undefined]

ProjectEmptyTitle == [title |-> "", description |-> "A web site"]

ProjectLongDescription == [title |-> "Site", description |-> LongText]

WorkNoCompany == [company |-> Undefined, position |-> "Developer",
                  start_date |-> "2023-01"]

WorkNoPosition == [company |-> "Tech Corp", position |-> Undefined,
                   start_date |-> "2023-01"]

WorkEmpty == [company |-> "", position |-> "  ", start_date |-> "2023-01"]

\* Bodies that pass every rule of validateProfile.
PassingShapes ==
    { Shape("Bob", "b@x.io", Absent, Absent, Absent),
      Shape("Cyd", "a@x.io", Arr(<<SkillStr("  ")>>), Arr(<<Project1>>), Absent),
      Shape("Eve", "a@x.io", Absent, Arr(<<ProjectNoTitle>>), Absent),
      Shape("Fay", "a@x.io", Absent, Arr(<<ProjectNoDescription>>), Absent),
      Shape("Gus", "a@x.io", Absent, Absent, Arr(<<WorkNoCompany>>)),
      Shape("Hal", "a@x.io", Absent, Absent, Arr(<<WorkNoPosition>>)) }

\* Bodies that fail one rule, or several at once.
FailingShapes ==
    { Shape("A", "b@x.io", Absent, Absent, Absent),
      Shape("  ", "b@x.io", Absent, Absent, Absent),
      Shape("Bob", "invalid-email", Absent, Absent, Absent),
      Shape("", "invalid-email", Absent, Absent, Absent),
      Shape("Bob", "b@x.io", NotArray, Absent, Absent),
      Shape("Bob", "b@x.io", Absent, NotArray, NotArray),
      Shape("Bob", "b@x.io", Arr(<<SkillStr("JS"), SkillStr("")>>), Absent, Absent),
      Shape("Bob", "b@x.io", Arr(<<SkillObj(Undefined, 3)>>), Absent, Absent),
      Shape("Bob", "b@x.io", Absent, Arr(<<Project1, ProjectEmptyTitle>>), Absent),
      Shape("Bob", "b@x.io", Absent, Arr(<<ProjectLongDescription>>), Absent),
      Shape("Bob", "b@x.io", Absent, Absent, Arr(<<WorkEmpty>>)),
      Shape("A", "b@x.io", Arr(<<SkillStr("")>>), Arr(<<ProjectEmptyTitle>>),
            Arr(<<Work1>>)) }

ShapeBodies == PassingShapes \cup FailingShapes

\* Bodies whose projects and skills the query endpoints list.
Project2 == [title |-> "App", description |-> "A phone app"]

\* The first is the profile the tests of the query endpoints start from.
QueryBodies ==
    { Shape("Test User", "a@x.io",
            Arr(<<SkillObj("JavaScript", 5), SkillObj("Python", 4),
                  SkillObj("Node.js", 4)>>),
            Arr(<<[title |-> "JavaScript Project",
                   description |-> "A project built with JavaScript"],
                  [title |-> "Python Project",
                   description |-> "A project built with Python"]>>), Absent),
      Shape("Ann", "a@x.io", Arr(<<SkillStr("JS"), SkillObj("Py", 3)>>),
            Arr(<<Project1, Project2>>), Absent),
      Shape("Dee", "b@x.io", Arr(<<SkillObj("JS", 5)>>), Arr(<<Project1>>),
            Arr(<<Work1>>)),
      Shape("Bob", "b@x.io", Arr(<<SkillStr("Go")>>), Absent, Absent),
      Shape("Ivy", "b@x.io", Arr(<<SkillObj("Py", 9), SkillObj("Go", 0)>>),
            Absent, Absent) }

\* The query strings sent to each of the query endpoints: those validateQuery
\* accepts, and those that break one of its rules.
BadQueries ==
    {Query(l, Undefined, Undefined, Undefined, Undefined) : l \in {"0", "101", "abc"}}
      \cup {Query(Undefined, "-1", Undefined, Undefined, Undefined),
            Query(Undefined, Undefined, "bogus", Undefined, Undefined)}

ProjectsQueries ==
    {Query(l, o, Undefined, Undefined, sk) :
       l \in {Undefined, "1", "2"}, o \in {Undefined, "1"}, sk \in {Undefined, "js"}}
      \cup {Query(Undefined, Undefined, Undefined, Undefined, "JavaScript")}
      \cup BadQueries

TopQueries ==
    {Query(l, Undefined, Undefined, Undefined, Undefined) : l \in {Undefined, "1", "2"}}
      \cup BadQueries

SearchQueries ==
    {Query(l, o, t, "SITE", Undefined) :
       l \in {Undefined, "1"}, o \in {Undefined, "1"}, t \in {Undefined, "projects"}}
      \cup {Query(Undefined, Undefined, t, "JavaScript", Undefined) :
               t \in {Undefined, "projects", "skills"}}
      \cup {Query(Undefined, Undefined, Undefined, q, Undefined) : q \in {Undefined, "  "}}
      \cup {[query EXCEPT !.q = "SITE"] :
               query \in {x \in BadQueries : x.limit # "abc"}}

\* Tokens a client may present: one the server signed, still valid at every
\* time of the model, and one signed with another key.
GoodToken == [sig |-> JWT_SECRET, id |-> 1, username |-> "admin", role |-> "admin",
              exp |-> MaxTime + JWT_EXPIRES_IN + 1]

ForgedToken == [GoodToken EXCEPT !.sig = "not-the-secret"]

Bearer == Credential("Bearer", GoodToken)

Headers ==
    { NoHeader, SchemeOnly("Bearer"), Credential("Bearer", GoodToken),
      Credential("Bearer", ForgedToken) }

-----------------------------------------------------------------------------
(* The state.                                                               *)

VARIABLES
    db,       \* the committed tables
    ids,      \* the next id of each table's sequence
    tx,       \* the open transaction: its owner and the store it sees
    req,      \* per client: where its request's handler stands
    last,     \* the response sent last, with the request it answers
    now,      \* the clock
    issued    \* the tokens login has returned

vars == <<db, ids, tx, req, last, now, issued>>

Idle == [pc |-> "idle", header |-> NoHeader,
         body |-> BodyOf(CHOOSE k \in Kits : k.name = "Bob", "a@x.io"),
         target |-> 0]

NoTx == [open |-> FALSE, owner |-> "", S |-> [db |-> EmptyDb, ids |-> FirstIds],
         before |-> EmptyDb]

\* The entry of a response sent: the request (its client, method, path, its
\* Authorization header, the profile_id of its query, its query string, the
\* :id of its path as parseInt reads it, the credentials of a
\* login), the count a delete logs, the response, whether a transaction was
\* open when it was sent, and the parity of the number of responses sent.
NoCreds == [username |-> Undef, password |-> Undef]

Entry(p, method, path, header, res) ==
    [client |-> p, method |-> method, path |-> path, header |-> header,
     query |-> 0, params |-> NoQuery, id |-> ParseInt(Undefined),
     creds |-> NoCreds, deleted |-> 0, res |-> res,
     inTx |-> FALSE, seq |-> 0]

NoRequest == Entry("", "", "", NoHeader, Response(0, "", ""))

Init ==
    /\ db = EmptyDb
    /\ ids = FirstIds
    /\ tx = NoTx
    /\ req = [p \in Procs |-> Idle]
    /\ last = NoRequest
    /\ now = 0
    /\ issued = {}

\* Whether the ids a body's child rows need, and the id of a new profile
\* row, are within the bound.
FitsChildren(body, maxId) ==
    /\ ids.skill + Len(SkillsOf(body)) - 1 <= maxId
    /\ ids.project + Len(ProjectsOf(body)) - 1 <= maxId
    /\ ids.work + Len(WorkOf(body)) - 1 <= maxId

Fits(body, maxId) == ids.profile <= maxId /\ FitsChildren(body, maxId)

\* The response res to client p's request goes out; the handler is done.
Respond(p, method, path, header, res) ==
    /\ last' = [Entry(p, method, path, header, res)
                   EXCEPT !.inTx = tx.open, !.seq = 1 - last.seq]
    /\ req' = [req EXCEPT ![p] = Idle]

\* The middleware in front of a /api/profile handler: the response that ends
\* the request there, or next.
Middleware(method, header, body) ==
    LET gate == requireAuth(method, header, now)
    IN  IF ~gate.next THEN gate
        ELSE IF method \in {"POST", "PUT"} THEN handleValidationErrors(body)
        ELSE gate

-----------------------------------------------------------------------------
(* GET /api/profile                                                         *)

GetProfile(p, header) ==
    /\ req[p].pc = "idle"
    /\ LET mw == Middleware("GET", header, req[p].body)
       IN  IF ~mw.next
           THEN Respond(p, "GET", "/api/profile", header, mw.res)
           ELSE IF db.profiles = {}
           THEN Respond(p, "GET", "/api/profile", header,
                    errorHandler(AppError("No profiles found", 404,
                                          "PROFILES_NOT_FOUND")))
           ELSE Respond(p, "GET", "/api/profile", header,
                    [Success(200, "") EXCEPT !.profiles = TransformedProfiles(db),
                                             !.shape = "array"])
    /\ UNCHANGED <<db, ids, tx, now, issued>>

(* GET /api/skills?profile_id=: profileId 0 stands for no profile_id.       *)

GetSkills(p, profileId) ==
    /\ req[p].pc = "idle"
    /\ last' = [Entry(p, "GET", "/api/skills", NoHeader,
                      [Success(200, "") EXCEPT !.skills = SkillList(db, profileId)])
                   EXCEPT !.query = profileId, !.inTx = tx.open,
                          !.seq = 1 - last.seq]
    /\ req' = [req EXCEPT ![p] = Idle]
    /\ UNCHANGED <<db, ids, tx, now, issued>>

\* The response res to client p's GET of a query endpoint goes out.
Answer(p, path, query, res) ==
    /\ last' = [Entry(p, "GET", path, NoHeader, res)
                   EXCEPT !.params = query, !.inTx = tx.open,
                          !.seq = 1 - last.seq]
    /\ req' = [req EXCEPT ![p] = Idle]

(* GET /api/projects: validateQuery, paginate, then the two queries.        *)

GetProjects(p, query) ==
    /\ req[p].pc = "idle"
    /\ LET mw == validateQuery(query)
       IN  IF ~mw.next
           THEN Answer(p, "/api/projects", query, mw.res)
           ELSE Answer(p, "/api/projects", query, ProjectsResponse(db, query))
    /\ UNCHANGED <<db, ids, tx, now, issued>>

(* GET /api/skills/top: validateQuery, then the groupBy.                    *)

GetTopSkills(p, query) ==
    /\ req[p].pc = "idle"
    /\ LET mw == validateQuery(query)
       IN  IF ~mw.next
           THEN Answer(p, "/api/skills/top", query, mw.res)
           ELSE \E order \in GroupOrders(SkillGroups(db)) :
                   Answer(p, "/api/skills/top", query,
                          [Success(200, "") EXCEPT
                             !.skills = Page(order, 0, TopLimit(query))])
    /\ UNCHANGED <<db, ids, tx, now, issued>>

(* GET /api/search: no middleware in front of the handler.                  *)

GetSearch(p, query) ==
    /\ req[p].pc = "idle"
    /\ Answer(p, "/api/search", query, SearchResponse(db, query))
    /\ UNCHANGED <<db, ids, tx, now, issued>>

(* POST /api/profile: the middleware and the lookup by email, then the      *)
(* create.                                                                  *)

PostProfile(p, header, body, maxId) ==
    /\ req[p].pc = "idle"
    /\ LET mw == Middleware("POST", header, body)
           data == Sanitized(body)
       IN  IF ~mw.next
           THEN Respond(p, "POST", "/api/profile", header, mw.res)
           ELSE IF FindByEmail(db, data.email) # {}
           THEN Respond(p, "POST", "/api/profile", header,
                    errorHandler(AppError(
                        "Profile with this email already exists. Use PUT to update.",
                        409, "PROFILE_EXISTS")))
           ELSE /\ Fits(data, maxId)
                /\ req' = [req EXCEPT ![p] = [pc |-> "post_create", header |-> header,
                                               body |-> data, target |-> 0]]
                /\ UNCHANGED last
    /\ UNCHANGED <<db, ids, tx, now, issued>>

PostCreate(p, maxId) ==
    /\ req[p].pc = "post_create"
    /\ ~tx.open
    /\ Fits(req[p].body, maxId)
    /\ LET r == ProfileCreate([db |-> db, ids |-> ids], req[p].body)
       IN  /\ db' = r.S.db
           /\ ids' = r.S.ids
           /\ IF r.err = NoError
              THEN Respond(p, "POST", "/api/profile", req[p].header,
                       [Success(201, "Profile created successfully")
                          EXCEPT !.profileId = r.id])
              ELSE Respond(p, "POST", "/api/profile", req[p].header,
                       errorHandler(r.err))
    /\ UNCHANGED <<tx, now, issued>>

(* PUT /api/profile: the middleware and the lookup of the latest profile,   *)
(* then the transaction, statement by statement.                           *)

PutProfile(p, header, body, maxId) ==
    /\ req[p].pc = "idle"
    /\ LET mw == Middleware("PUT", header, body)
           data == Sanitized(body)
       IN  IF ~mw.next
           THEN Respond(p, "PUT", "/api/profile", header, mw.res)
           ELSE IF FindLatest(db) = 0
           THEN Respond(p, "PUT", "/api/profile", header,
                    errorHandler(AppError("Profile not found", 404, "PROFILE_NOT_FOUND")))
           ELSE /\ FitsChildren(data, maxId)
                /\ req' = [req EXCEPT ![p] = [pc |-> "put_update", header |-> header,
                                               body |-> data,
                                               target |-> FindLatest(db)]]
                /\ UNCHANGED last
    /\ UNCHANGED <<db, ids, tx, now, issued>>

PutUpdate(p, maxId) ==
    /\ req[p].pc = "put_update"
    /\ ~tx.open
    /\ FitsChildren(req[p].body, maxId)
    /\ LET r == ProfileUpdate([db |-> db, ids |-> ids], req[p].target, req[p].body)
       IN  IF r.err # NoError
           THEN /\ Respond(p, "PUT", "/api/profile", req[p].header,
                           errorHandler(r.err))
                /\ UNCHANGED <<db, tx>>
           ELSE /\ tx' = [open |-> TRUE, owner |-> p, S |-> r.S, before |-> db]
                /\ db' = Isolated(db, r.S.db)
                /\ req' = [req EXCEPT ![p].pc = "put_delete"]
                /\ UNCHANGED last
    /\ UNCHANGED <<ids, now, issued>>

PutDelete(p) ==
    /\ req[p].pc = "put_delete"
    /\ tx.open /\ tx.owner = p
    /\ LET S == DeleteChildren(tx.S, req[p].target)
       IN  /\ tx' = [tx EXCEPT !.S = S]
           /\ db' = Isolated(db, S.db)
    /\ req' = [req EXCEPT ![p].pc = "put_insert"]
    /\ UNCHANGED <<ids, last, now, issued>>

\* The inserts; then the callback returns and the transaction commits, or it
\* throws and the transaction rolls back.
PutInsert(p) ==
    /\ req[p].pc = "put_insert"
    /\ tx.open /\ tx.owner = p
    /\ LET r == InsertChildren(tx.S, req[p].target, req[p].body)
       IN  /\ ids' = r.S.ids
           /\ IF r.err = NoError
              THEN /\ db' = r.S.db
                   /\ Respond(p, "PUT", "/api/profile", req[p].header,
                              Success(200, "Profile updated successfully"))
              ELSE /\ db' = Isolated(db, r.S.db)
                   /\ Respond(p, "PUT", "/api/profile", req[p].header,
                              errorHandler(r.err))
    /\ tx' = NoTx
    /\ UNCHANGED <<now, issued>>

(* DELETE /api/profile                                                      *)

DeleteProfile(p, header) ==
    /\ req[p].pc = "idle"
    /\ LET mw == Middleware("DELETE", header, req[p].body)
           r == DeleteAllProfiles(db)
       IN  IF ~mw.next
           THEN /\ Respond(p, "DELETE", "/api/profile", header, mw.res)
                /\ UNCHANGED db
           ELSE /\ ~tx.open
                /\ db' = r.db
                /\ IF r.count = 0
                   THEN Respond(p, "DELETE", "/api/profile", header,
                            errorHandler(AppError("Profile not found", 404,
                                                  "PROFILE_NOT_FOUND")))
                   ELSE /\ last' = [Entry(p, "DELETE", "/api/profile", header,
                                      Success(200, "Profile deleted successfully"))
                                     EXCEPT !.deleted = r.count,
                                            !.seq = 1 - last.seq]
                        /\ req' = [req EXCEPT ![p] = Idle]
    /\ UNCHANGED <<ids, tx, now, issued>>

(* DELETE /api/profile/projects/:id and /api/profile/work-experience/:id:   *)
(* the gate, parseInt and the lookup of the row, then the delete.           *)

\* The texts and codes of the two routes, by table.
ItemRoute(table) ==
    IF table = "projects"
    THEN [path |-> "/api/profile/projects/:id", pc |-> "project_delete",
          invalid |-> AppError("Invalid project ID", 400, "INVALID_PROJECT_ID"),
          missing |-> AppError("Project not found", 404, "PROJECT_NOT_FOUND"),
          done |-> "Project deleted successfully"]
    ELSE [path |-> "/api/profile/work-experience/:id", pc |-> "work_delete",
          invalid |-> AppError("Invalid work experience ID", 400, "INVALID_WORK_ID"),
          missing |-> AppError("Work experience not found", 404, "WORK_NOT_FOUND"),
          done |-> "Work experience deleted successfully"]

\* The response res to client p's DELETE of the row id of a table goes out.
RespondItem(p, table, header, id, res) ==
    /\ last' = [Entry(p, "DELETE", ItemRoute(table).path, header, res)
                   EXCEPT !.id = id, !.inTx = tx.open, !.seq = 1 - last.seq]
    /\ req' = [req EXCEPT ![p] = Idle]

\* prisma.<table>.findUnique({ where: { id } }): the rows found.
FindUnique(rows, id) == {r \in rows : r.id = id}

DeleteItem(p, header, table, id) ==
    /\ req[p].pc = "idle"
    /\ LET mw == Middleware("DELETE", header, req[p].body)
           parsed == ParseInt(id)
       IN  IF ~mw.next
           THEN RespondItem(p, table, header, parsed, mw.res)
           ELSE IF parsed.nan
           THEN RespondItem(p, table, header, parsed,
                            errorHandler(ItemRoute(table).invalid))
           ELSE IF FindUnique(db[table], parsed.n) = {}
           THEN RespondItem(p, table, header, parsed,
                            errorHandler(ItemRoute(table).missing))
           ELSE /\ req' = [req EXCEPT ![p] = [pc |-> ItemRoute(table).pc,
                                               header |-> header,
                                               body |-> req[p].body,
                                               target |-> parsed.n]]
                /\ UNCHANGED last
    /\ UNCHANGED <<db, ids, tx, now, issued>>

\* prisma.<table>.delete({ where: { id } }): P2025 when the row is gone.
DeleteItemRow(p, table) ==
    /\ req[p].pc = ItemRoute(table).pc
    /\ ~tx.open
    /\ LET id == req[p].target
           parsed == [nan |-> FALSE, n |-> id]
       IN  IF FindUnique(db[table], id) = {}
           THEN /\ RespondItem(p, table, req[p].header, parsed,
                               errorHandler(PrismaKnownError("P2025")))
                /\ UNCHANGED db
           ELSE /\ db' = [db EXCEPT ![table] = @ \ FindUnique(db[table], id)]
                /\ RespondItem(p, table, req[p].header, parsed,
                               Success(200, ItemRoute(table).done))
    /\ UNCHANGED <<ids, tx, now, issued>>

\* The bodies of the clients whose requests interleave.
ConcBodies ==
    { [name |-> "Eve", email |-> "a@x.io", skills |-> Arr(<<SkillStr("Go")>>),
       projects |-> Arr(<<Project1>>), workExperience |-> Absent],
      [name |-> "Fay", email |-> "b@x.io", skills |-> Arr(<<SkillObj("JS", 4)>>),
       projects |-> Absent, workExperience |-> Arr(<<Work1>>)],
      [name |-> "Bob", email |-> "A@x.io", skills |-> Absent, projects |-> Absent,
       workExperience |-> Absent] }

\* One client at a time: each request is answered before the next arrives.
Next ==
    \E p \in {"c1"} :
        \/ \E h \in Headers : GetProfile(p, h)
        \/ \E h \in Headers, b \in Bodies : PostProfile(p, h, b, MaxId)
        \/ PostCreate(p, MaxId)
        \/ \E h \in Headers, b \in Bodies : PutProfile(p, h, b, MaxId)
        \/ PutUpdate(p, MaxId)
        \/ PutDelete(p)
        \/ PutInsert(p)
        \/ \E h \in Headers : DeleteProfile(p, h)

Spec == Init /\ [][Next]_vars

\* Two clients: their handlers interleave at the database calls. The writes
\* come with a valid token and the reads with no header; profile_id is left
\* out of a skills query or names a stored profile.
NextConc ==
    \E p \in Procs :
        \/ GetProfile(p, NoHeader)
        \/ \E id \in {0} \cup {r.id : r \in db.profiles} : GetSkills(p, id)
        \/ \E b \in ConcBodies : PostProfile(p, Bearer, b, MaxConcId)
        \/ PostCreate(p, MaxConcId)
        \/ \E b \in ConcBodies : PutProfile(p, Bearer, b, MaxConcId)
        \/ PutUpdate(p, MaxConcId)
        \/ PutDelete(p)
        \/ PutInsert(p)
        \/ DeleteProfile(p, Bearer)

SpecConc == Init /\ [][NextConc]_vars

-----------------------------------------------------------------------------
(* POST /api/auth/login, and the clock.                                     *)

\* The values a login body may carry for username and for password.
Usernames == {Undef, Str(""), Str("admin"), Str("nonexistent"), Num("7")}

Passwords == {Undef, Str(""), Str("password"), Str("wrongpassword"), Num("12345")}

Login(p, username, password) ==
    /\ req[p].pc = "idle"
    /\ LET res == login(username, password, now)
       IN  /\ last' = [Entry(p, "POST", "/api/auth/login", NoHeader, res)
                          EXCEPT !.creds = [username |-> username,
                                            password |-> password],
                                 !.inTx = tx.open, !.seq = 1 - last.seq]
           /\ issued' = IF res.hasToken THEN issued \cup {res.token} ELSE issued
    /\ UNCHANGED <<db, ids, tx, req, now>>

Tick ==
    /\ now < MaxTime
    /\ now' = now + 1
    /\ UNCHANGED <<db, ids, tx, req, last, issued>>

\* The headers a client may send once logins have returned tokens: none, a
\* token a login returned, or a token signed with another key.
AuthHeaders ==
    {NoHeader} \cup {Credential("Bearer", t) : t \in issued \cup {ForgedToken}}

\* The body of the profile requests sent while logins and the clock run.
AuthBodies == {BodyOf(CHOOSE k \in Kits : k.name = "Bob", "b@x.io")}

NextAuth ==
    \/ \E p \in Procs, u \in Usernames, pw \in Passwords : Login(p, u, pw)
    \/ Tick
    \/ \E h \in AuthHeaders, b \in AuthBodies :
          PostProfile("c1", h, b, MaxAuthId)
    \/ PostCreate("c1", MaxAuthId)
    \/ \E h \in AuthHeaders : DeleteProfile("c1", h)

SpecAuth == Init /\ [][NextAuth]_vars

-----------------------------------------------------------------------------
(* What the properties speak of.                                            *)

\* A response goes out in this step; to a request of the profile routes.
Sent == last'.seq # last.seq

SentTo(method) == Sent /\ last'.method = method /\ last'.path = "/api/profile"

\* The elements a body supplies for a collection: none when it is left out.
Supplied(field) == IF field.kind = "array" THEN field.items ELSE <<>>

\* The children a body supplies, by what names them.
SuppliedChildren(body) ==
    [skills   |-> [i \in DOMAIN Supplied(body.skills) |-> Supplied(body.skills)[i].name],
     projects |-> [i \in DOMAIN Supplied(body.projects) |->
                      Supplied(body.projects)[i].title],
     work     |-> [i \in DOMAIN Supplied(body.workExperience) |->
                      Supplied(body.workExperience)[i].company]]

\* The children a store holds for profile pid, in insertion order.
StoredChildren(store, pid) ==
    LET skills == ById({r \in store.skills : r.profileId = pid})
        projects == ById({r \in store.projects : r.profileId = pid})
        work == ById({r \in store.work : r.profileId = pid})
    IN  [skills   |-> [i \in DOMAIN skills |-> skills[i].skillName],
         projects |-> [i \in DOMAIN projects |-> projects[i].title],
         work     |-> [i \in DOMAIN work |-> work[i].company]]

\* The child rows of profile pid, of every kind.
ChildRows(store, pid) ==
    {r \in store.skills \cup store.projects \cup store.work : r.profileId = pid}

-----------------------------------------------------------------------------
(* The auth gate.                                                           *)

\* C1: a POST, PUT or DELETE whose Authorization header carries no token (no
\* header, or nothing after the scheme) is answered 401 NO_TOKEN by the gate,
\* no handler starts for it and the tables and id sequences stay as they are;
\* a GET is never answered 401 or 403, whatever its header, and is answered
\* 200 whenever a profile is stored.
C1_NoTokenRejectedGetPasses ==
    [][/\ (/\ Sent
           /\ last'.method \in {"POST", "PUT", "DELETE"}
           /\ last'.header.parts < 2)
          => /\ last'.res.status = 401
             /\ last'.res.code = "NO_TOKEN"
             /\ req[last'.client].pc = "idle"
             /\ db' = db /\ ids' = ids /\ tx' = tx
       /\ \A p \in Procs :
             (req[p].pc = "idle" /\ req'[p].pc # "idle") => req'[p].header.parts >= 2
       /\ SentTo("GET")
          => /\ last'.res.status \notin {401, 403}
             /\ last'.res.code \notin {"NO_TOKEN", "INVALID_TOKEN"}
             /\ db.profiles # {} => last'.res.status = 200]_vars

\* C1 witness: a DELETE without a header was turned away with 401 NO_TOKEN
\* while profiles were stored, and they still are.
C1_Witness ==
    /\ last.method = "DELETE" /\ last.header = NoHeader
    /\ last.res.status = 401 /\ last.res.code = "NO_TOKEN"
    /\ db.profiles # {}

-----------------------------------------------------------------------------
(* PUT /api/profile replaces the children.                                  *)

\* C2: when a PUT is answered 200, the target profile's skill, project and
\* work rows are the ones the body supplies, in the body's order, none of the
\* rows stored before is among them, and a collection that is empty or left
\* out leaves no row of its kind.
C2_PutReplacesChildren ==
    [][(SentTo("PUT") /\ last'.res.status = 200)
         => LET target == req[last'.client].target
                body == req[last'.client].body
            IN  /\ StoredChildren(db', target) = SuppliedChildren(body)
                /\ ChildRows(db', target) \cap ChildRows(db, target) = {}
                /\ Supplied(body.skills) = <<>>
                     => {r \in db'.skills : r.profileId = target} = {}
                /\ Supplied(body.projects) = <<>>
                     => {r \in db'.projects : r.profileId = target} = {}
                /\ Supplied(body.workExperience) = <<>>
                     => {r \in db'.work : r.profileId = target} = {}]_vars

\* C2 witness: the only profile ever created had two skills and a project; a
\* PUT was answered 200 and the profile now has the one skill of the PUT's
\* body, a row created after those two, and no project.
C2_Witness ==
    /\ last.method = "PUT" /\ last.res.status = 200
    /\ ids.profile = 2 /\ db.profiles # {}
    /\ ids.skill = 4 /\ {r.id : r \in db.skills} = {3}
    /\ ids.project = 2 /\ db.projects = {}

-----------------------------------------------------------------------------
(* POST /api/profile with a stored email.                                   *)

-----------------------------------------------------------------------------
(* POST then GET.                                                           *)

\* C4: when a POST is answered 201, GET /api/profile on the store it leaves
\* lists the created profile with as many skills, projects and work entries
\* as the body's arrays are long (0 for an array left out); and a GET that is
\* answered 200 lists what the store holds at that moment.
C4_PostThenGetCounts ==
    [][/\ (SentTo("POST") /\ last'.res.status = 201)
          => LET body == req[last'.client].body
                 listed == TransformedProfiles(db')
             IN  \E i \in DOMAIN listed :
                    /\ listed[i].id = last'.res.profileId
                    /\ listed[i].email = body.email
                    /\ Len(listed[i].skills) = Len(Supplied(body.skills))
                    /\ Len(listed[i].skillsWithLevel) = Len(Supplied(body.skills))
                    /\ Len(listed[i].projects) = Len(Supplied(body.projects))
                    /\ Len(listed[i].workExperience) =
                           Len(Supplied(body.workExperience))
       /\ (SentTo("GET") /\ last'.res.status = 200)
          => /\ last'.res.profiles = TransformedProfiles(db)
             /\ Len(last'.res.profiles) = Cardinality(db.profiles)]_vars

\* C4 witness: a POST was answered 201 for a profile that GET lists with two
\* skills, one project and one work entry.
C4_Witness ==
    /\ last.method = "POST" /\ last.res.status = 201
    /\ \E i \in DOMAIN TransformedProfiles(db) :
          /\ TransformedProfiles(db)[i].id = last.res.profileId
          /\ Len(TransformedProfiles(db)[i].skills) = 2
          /\ Len(TransformedProfiles(db)[i].projects) = 1
          /\ Len(TransformedProfiles(db)[i].workExperience) = 1

-----------------------------------------------------------------------------
(* DELETE /api/profile.                                                     *)

\* C5: a DELETE with a valid token that finds at least one profile is
\* answered 200 and leaves no profile, skill, project or work row, however
\* many profiles there were.
C5_DeleteEmptiesStore ==
    [][(SentTo("DELETE") /\ last'.header = Bearer /\ db.profiles # {})
         => /\ last'.res.status = 200
            /\ last'.deleted = Cardinality(db.profiles)
            /\ db'.profiles = {} /\ db'.skills = {}
            /\ db'.projects = {} /\ db'.work = {}]_vars

\* C5 witness: a DELETE was answered 200 after removing two profiles or
\* more, child rows had been created, and every table is empty.
C5_Witness ==
    /\ last.method = "DELETE" /\ last.res.status = 200
    /\ last.deleted >= 2
    /\ ids.skill > 1 /\ ids.project > 1
    /\ db = EmptyDb

\* C6 (as claimed): a PUT or DELETE with a valid token, and for PUT a valid
\* body, that finds no profile is answered 404 PROFILE_NOT_FOUND 'Profile
\* not found' and the store stays empty.
C6_EmptyStoreAnswered404 ==
    [][(/\ db.profiles = {}
        /\ \/ \E b \in ValidBodies : PutProfile("c1", Bearer, b, MaxId)
           \/ DeleteProfile("c1", Bearer))
         => /\ last'.res.status = 404
            /\ last'.res.code = "PROFILE_NOT_FOUND"
            /\ last'.res.error = "Profile not found"
            /\ db' = EmptyDb]_vars

-----------------------------------------------------------------------------
(* Readers while a PUT's transaction is open.                               *)

Range(f) == {f[i] : i \in DOMAIN f}

\* The children a profile of a GET /api/profile response is listed with.
ListedChildren(e) ==
    [skills   |-> e.skills,
     projects |-> [i \in DOMAIN e.projects |-> e.projects[i].title],
     work     |-> [i \in DOMAIN e.workExperience |-> e.workExperience[i].company]]

-----------------------------------------------------------------------------
(* POST /api/profile creates the profile and its children together.        *)

LacksStartDate(body) ==
    \E i \in DOMAIN Supplied(body.workExperience) :
        Supplied(body.workExperience)[i].start_date = Undefined

-----------------------------------------------------------------------------
(* Emails are unique.                                                       *)

\* C9: no two stored profiles have the same email, whatever POST, PUT and
\* DELETE requests of two clients have interleaved.
C9_EmailsUnique ==
    \A a, b \in db.profiles : a.email = b.email => a.id = b.id

\* C9 witness: two profiles are stored and a PUT, which would have given the
\* newer one the email of the other, was answered DUPLICATE_ENTRY.
C9_Witness ==
    /\ last.method = "PUT" /\ last.res.code = "DUPLICATE_ENTRY"
    /\ Cardinality(db.profiles) = 2
    /\ Cardinality({r.email : r \in db.profiles}) = 2

-----------------------------------------------------------------------------
(* POST /api/auth/login.                                                    *)

\* A credential that is absent: left out of the body, or empty.
Missing(v) == v.type = "undefined" \/ v = Str("")

\* C10 (as claimed): a login is answered 400 MISSING_CREDENTIALS when the
\* username or the password is absent, 401 INVALID_CREDENTIALS when both are
\* there and the username is unknown or the password is not the stored one,
\* and 200 with a token and the user's id, username and role for the pair
\* admin/password alone; no login answered otherwise carries a token.
C10_LoginOutcomes ==
    [][(Sent /\ last'.path = "/api/auth/login")
         => LET u == last'.creds.username
                pw == last'.creds.password
                res == last'.res
                recognised == u = Str("admin") /\ pw = Str("password")
            IN  /\ (Missing(u) \/ Missing(pw))
                     => res.status = 400 /\ res.code = "MISSING_CREDENTIALS"
                /\ (~Missing(u) /\ ~Missing(pw) /\ ~recognised)
                     => res.status = 401 /\ res.code = "INVALID_CREDENTIALS"
                /\ recognised
                     => /\ res.status = 200 /\ res.hasToken
                        /\ res.user = [id |-> 1, username |-> "admin",
                                       role |-> "admin"]
                /\ res.status # 200 => ~res.hasToken]_vars

\* Bodies of every shape, sent by one client that holds a valid token; PUT
\* sends those a rule rejects and two that pass.
NextValid ==
    \/ \E b \in ShapeBodies : PostProfile("c1", Bearer, b, MaxValidId)
    \/ PostCreate("c1", MaxValidId)
    \/ \E b \in FailingShapes \cup {s \in PassingShapes : s.name \in {"Bob", "Eve"}} :
          PutProfile("c1", Bearer, b, MaxValidId)
    \/ PutUpdate("c1", MaxValidId)
    \/ PutDelete("c1")
    \/ PutInsert("c1")
    \/ DeleteProfile("c1", Bearer)

SpecValid == Init /\ [][NextValid]_vars

\* Deletes of single projects and work experiences by two clients, against a
\* store that one of them fills and empties.
ItemBodies ==
    { Shape("Ann", "a@x.io", Arr(<<SkillStr("JS")>>), Arr(<<Project1>>),
            Arr(<<Work1>>)),
      Shape("Dee", "b@x.io", Absent, Arr(<<Project1, Project2>>), Arr(<<Work1>>)) }

NextItems ==
    \/ \E b \in ItemBodies : PostProfile("c1", Bearer, b, MaxItemId)
    \/ PostCreate("c1", MaxItemId)
    \/ DeleteProfile("c1", Bearer)
    \/ \E b \in ItemBodies : PutProfile("c2", Bearer, b, MaxItemId)
    \/ PutUpdate("c2", MaxItemId)
    \/ PutDelete("c2")
    \/ PutInsert("c2")
    \/ \E p \in Procs, h \in {NoHeader, Bearer}, table \in {"projects", "work"},
          id \in {"1", "2", "abc"} : DeleteItem(p, h, table, id)
    \/ \E p \in Procs, table \in {"projects", "work"} : DeleteItemRow(p, table)

SpecItems == Init /\ [][NextItems]_vars

\* Queries against a store that one client with a valid token fills and
\* empties.
NextQuery ==
    \/ \E b \in QueryBodies : PostProfile("c1", Bearer, b, MaxQueryId)
    \/ PostCreate("c1", MaxQueryId)
    \/ DeleteProfile("c1", Bearer)
    \/ \E query \in ProjectsQueries : GetProjects("c1", query)
    \/ \E query \in TopQueries : GetTopSkills("c1", query)
    \/ \E query \in SearchQueries : GetSearch("c1", query)

SpecQuery == Init /\ [][NextQuery]_vars

-----------------------------------------------------------------------------
(* Tokens and their expiry.                                                 *)

Mutations == {"POST", "PUT", "DELETE"}

\* A response goes out to a request that arrived in this step: the gate, the
\* validation or a handler of one step answers it.
SentAtOnce == Sent /\ req[last'.client].pc = "idle"

\* C11 (as claimed): a POST, PUT or DELETE with a token the server signed and
\* whose expiry has passed is answered 403 TOKEN_EXPIRED, and no handler
\* step runs for it.
C11_ExpiredAnswered403Expired ==
    [][(/\ SentAtOnce
        /\ last'.method \in Mutations /\ last'.path = "/api/profile"
        /\ last'.header.parts = 2
        /\ last'.header.token.sig = JWT_SECRET
        /\ now >= last'.header.token.exp)
         => /\ last'.res.status = 403
            /\ last'.res.code = "TOKEN_EXPIRED"
            /\ db' = db /\ ids' = ids]_vars

\* C12: a token a login returned is let through by the gate on every POST and
\* DELETE that arrives before its expiry and is answered 403 on every one
\* that arrives at or after it, whatever logins, failed logins and requests
\* came in between; a handler starts only for a token not yet expired, and
\* no token once returned is withdrawn.
C12_TokenGoodUntilExpiry ==
    [][/\ (/\ SentAtOnce
           /\ last'.method \in Mutations /\ last'.path = "/api/profile"
           /\ last'.header.parts = 2
           /\ last'.header.token \in issued)
          => IF now < last'.header.token.exp
             THEN last'.res.status \notin {401, 403}
             ELSE /\ last'.res.status = 403
                  /\ db' = db /\ ids' = ids
       /\ \A p \in Procs :
             (req[p].pc = "idle" /\ req'[p].pc # "idle")
               => /\ req'[p].header.token \in issued
                  /\ now < req'[p].header.token.exp
       /\ issued \subseteq issued']_vars

\* C12 witness: a DELETE with a token of an earlier login has just removed a
\* profile, one tick before that token expires; a later login has returned
\* another token and the last login before the DELETE had failed or not.
C12_Witness ==
    /\ last.method = "DELETE" /\ last.res.status = 200
    /\ last.header.token \in issued
    /\ last.header.token.exp = now + 1
    /\ \E t \in issued : t.exp > last.header.token.exp

-----------------------------------------------------------------------------
(* Bodies that break a validation rule.                                     *)

\* The fields of a body whose value breaks its rule, value by value.
Failing(body) ==
    {f \in {"name", "email", "skills", "skills.*", "projects", "projects.*.title",
            "projects.*.description", "workExperience",
            "workExperience.*.company", "workExperience.*.position"} :
       \/ f = "name" /\ body.name \in {"", "  ", "A"}
       \/ f = "email" /\ body.email = "invalid-email"
       \/ f = "skills" /\ body.skills.kind = "number"
       \/ f = "skills.*" /\ \E sk \in Range(body.skills.items) :
                                sk.name \in {"", Undefined}
       \/ f = "projects" /\ body.projects.kind = "number"
       \/ f = "projects.*.title" /\ \E pr \in Range(body.projects.items) :
                                        pr.title = ""
       \/ f = "projects.*.description" /\ \E pr \in Range(body.projects.items) :
                                              pr.description = LongText
       \/ f = "workExperience" /\ body.workExperience.kind = "number"
       \/ f = "workExperience.*.company" /\
              \E w \in Range(body.workExperience.items) : w.company \in {"", "  "}
       \/ f = "workExperience.*.position" /\
              \E w \in Range(body.workExperience.items) : w.position \in {"", "  "}}

\* A request with body b arrives from the client that holds a valid token.
Arrives(b) ==
    \/ PostProfile("c1", Bearer, b, MaxValidId)
    \/ PutProfile("c1", Bearer, b, MaxValidId)

\* The arriving request is answered 400 VALIDATION_ERROR at once: no handler
\* step is pending for it and no row has changed.
Rejected ==
    /\ Sent
    /\ last'.res.status = 400 /\ last'.res.code = "VALIDATION_ERROR"
    /\ req'["c1"].pc = "idle"
    /\ db' = db /\ ids' = ids

\* C13: a POST or PUT /api/profile whose body breaks a validation rule is
\* answered 400 VALIDATION_ERROR with a details entry for every failing field
\* and no other, the handler does not start, and the store is unchanged.
C13_InvalidBodyRejected ==
    [][\A b \in ShapeBodies :
          (Failing(b) # {} /\ Arrives(b))
            => Rejected /\ last'.res.details = Failing(b)]_vars

\* C13 witness: a PUT whose body fails three fields at once has been answered
\* 400 with the three of them while a profile is stored.
C13_Witness ==
    /\ last.method = "PUT"
    /\ last.res.code = "VALIDATION_ERROR"
    /\ last.res.details =
         {"name", "skills.*", "projects.*.title"}
    /\ db.profiles # {}

\* Whether a project of the body has no title or no description, or a work
\* experience of it no company or no position.
LacksRequiredField(body) ==
    \/ \E pr \in Range(body.projects.items) :
          pr.title = Undefined \/ pr.description = Undefined
    \/ \E w \in Range(body.workExperience.items) :
          w.company = Undefined \/ w.position = Undefined

\* C14 (as claimed): a POST or PUT /api/profile with a project that has no
\* title or no description, or a work experience that has no company or no
\* position, is answered 400 VALIDATION_ERROR and no handler step runs.
C14_MissingElementFieldRejected ==
    [][\A b \in ShapeBodies :
          (LacksRequiredField(b) /\ Arrives(b)) => Rejected]_vars

-----------------------------------------------------------------------------
(* The query endpoints.                                                     *)

\* Whether a query string carries a limit that is not an integer in 1..100,
\* an offset that is not an integer from 0 up, or a type outside the list.
OutOfRange(query) ==
    \/ query.limit \notin {Undefined, "1", "2"}
    \/ query.offset \notin {Undefined, "0", "1"}
    \/ query.type \notin {Undefined, "all", "profiles", "projects", "skills", "work"}

\* C15 (as claimed): on GET /api/projects, /api/skills/top and /api/search a
\* limit outside 1..100, an offset below 0 or not an integer, or a type
\* outside the list is answered 400 VALIDATION_ERROR.
C15_BadQueryRejected ==
    [][(/\ Sent
        /\ last'.path \in {"/api/projects", "/api/skills/top", "/api/search"}
        /\ OutOfRange(last'.params))
         => /\ last'.res.status = 400
            /\ last'.res.code = "VALIDATION_ERROR"]_vars

\* C16 (as claimed): every error response carries a text in error and a text
\* in code.
C16_ErrorsCarryErrorAndCode ==
    [][(Sent /\ last'.res.status >= 400)
         => last'.res.error # "" /\ last'.res.code # ""]_vars

\* The projects a skill filter keeps: those of a profile that holds a skill
\* of that name, in any letter case; all of them without a filter.
Matching(skill) ==
    IF skill = Undefined THEN db.projects
    ELSE {r \in db.projects :
            \E sk \in db.skills :
                /\ sk.profileId = r.profileId
                /\ \/ skill = "js" /\ sk.skillName = "JS"
                   \/ skill = "JavaScript" /\ sk.skillName = "JavaScript"}

\* C20: GET /api/projects with limit L and offset O returns at most L
\* projects, all of them matching the filter and as many as the matching ones
\* from position O on allow; total is the number of matching projects and
\* hasMore is true exactly when O + L < total.
C20_PaginationOfProjects ==
    [][(Sent /\ last'.path = "/api/projects" /\ last'.res.status = 200)
         => LET L == IF last'.params.limit = Undefined
                     THEN 10 ELSE ParseInt(last'.params.limit).n
                O == IF last'.params.offset = Undefined
                     THEN 0 ELSE ParseInt(last'.params.offset).n
                total == Cardinality(Matching(last'.params.skill))
                page == last'.res.projects
            IN  /\ Len(page) <= L
                /\ Len(page) = Min(L, Max(total - O, 0))
                /\ {page[i].id : i \in DOMAIN page}
                      \subseteq {r.id : r \in Matching(last'.params.skill)}
                /\ Cardinality({page[i].id : i \in DOMAIN page}) = Len(page)
                /\ last'.res.pagination.total = total
                /\ last'.res.pagination.hasMore <=> (O + L < total)]_vars

\* C20 witness: with three projects stored, a page of one project from
\* offset 1 has been returned with hasMore, and the skill filter was set.
C20_Witness ==
    /\ last.path = "/api/projects" /\ last.res.status = 200
    /\ last.params.limit = "1" /\ last.params.offset = "1"
    /\ last.params.skill = "js"
    /\ Len(last.res.projects) = 1
    /\ last.res.pagination.total = 3
    /\ last.res.pagination.hasMore

-----------------------------------------------------------------------------
(* GET /api/profile and the deletes of single rows.                         *)

\* C17 (as claimed): a GET /api/profile that finds no profile is answered
\* 404 PROFILES_NOT_FOUND.
C17_GetOnEmptyStoreAnswered404 ==
    [][(SentTo("GET") /\ db.profiles = {})
         => /\ last'.res.status = 404
            /\ last'.res.code = "PROFILES_NOT_FOUND"]_vars

\* C18 (as claimed): with exactly one profile stored, GET /api/profile is
\* answered 200 with a body that is that profile as one JSON object: its
\* name and email at the top level, and skills and projects lists as long
\* as the stored rows.
C18_SingleProfileAsObject ==
    [][(SentTo("GET") /\ Cardinality(db.profiles) = 1)
         => LET stored == CHOOSE r \in db.profiles : TRUE
            IN  /\ last'.res.status = 200
                /\ last'.res.shape = "object"
                /\ Len(last'.res.profiles) = 1
                /\ last'.res.profiles[1].name = stored.name
                /\ last'.res.profiles[1].email = stored.email
                /\ Len(last'.res.profiles[1].skills)
                      = Cardinality(RowsOf(db.skills, stored.id))
                /\ Len(last'.res.profiles[1].projects)
                      = Cardinality(RowsOf(db.projects, stored.id))]_vars

\* C19 (as claimed): a DELETE of a project or work experience by id, past the
\* gate, is answered 400 INVALID_PROJECT_ID / INVALID_WORK_ID when the id is
\* no integer and 404 with a not-found code when no row has the id, the
\* store unchanged in both cases; otherwise exactly the row of that id goes.
C19_DeleteByIdOutcomes ==
    [][\A table \in {"projects", "work"} :
          (/\ Sent /\ last'.method = "DELETE"
           /\ last'.path = ItemRoute(table).path
           /\ last'.header = Bearer)
            => IF last'.id.nan
               THEN /\ last'.res.status = 400
                    /\ last'.res.code = ItemRoute(table).invalid.code
                    /\ db' = db
               ELSE IF \A r \in db[table] : r.id # last'.id.n
               THEN /\ last'.res.status = 404
                    /\ last'.res.code \in {ItemRoute(table).missing.code, "NOT_FOUND"}
                    /\ db' = db
               ELSE /\ last'.res.status = 200
                    /\ db' = [db EXCEPT ![table] =
                                 {r \in @ : r.id # last'.id.n}]]_vars

-----------------------------------------------------------------------------
(* The skill filter, the search and the top skills.                         *)

\* The store holds the tests' profile and nothing else: the skills
\* JavaScript, Python and Node.js, a JavaScript project and a Python project.
TestUserStored ==
    /\ Cardinality(db.profiles) = 1
    /\ {r.skillName : r \in db.skills} = {"JavaScript", "Python", "Node.js"}
    /\ {r.title : r \in db.projects} = {"JavaScript Project", "Python Project"}

\* C21 (as claimed): with that profile stored, GET /api/projects?skill=JavaScript
\* returns the JavaScript project and only it.
C21_SkillFilterPicksProject ==
    [][(/\ Sent /\ last'.path = "/api/projects"
        /\ last'.params = Query(Undefined, Undefined, Undefined, Undefined,
                                "JavaScript")
        /\ TestUserStored)
         => /\ last'.res.status = 200
            /\ Len(last'.res.projects) = 1
            /\ last'.res.projects[1].title = "JavaScript Project"]_vars

\* The stored texts that contain a search term, whatever the letter case.
Holds(text, q) ==
    \/ q = "SITE" /\ text \in {"Site", "A web site"}
    \/ q = "JavaScript" /\ text \in {"JavaScript", "JavaScript Project",
                                     "A project built with JavaScript"}

\* The rows of each category that a search for q is to find.
Found(q) ==
    [profiles |-> {r.id : r \in {x \in db.profiles :
                                    Holds(x.name, q) \/ Holds(x.email, q)}},
     projects |-> {r.id : r \in {x \in db.projects :
                                    Holds(x.title, q) \/ Holds(x.description, q)}},
     skills |-> {r.skillName : r \in {x \in db.skills : Holds(x.skillName, q)}},
     workExperience |-> {r.id : r \in {x \in db.work :
                                    Holds(x.company, q) \/ Holds(x.position, q)}}]

\* What identifies the entries of a bucket of a response.
Listed(results) ==
    [profiles |-> {e.id : e \in Range(results.profiles)},
     projects |-> {e.id : e \in Range(results.projects)},
     skills |-> {e.skill_name : e \in Range(results.skills)},
     workExperience |-> {e.id : e \in Range(results.workExperience)}]

Buckets == {"profiles", "projects", "skills", "workExperience"}

\* The type that selects a bucket.
TypeOf(bucket) == IF bucket = "workExperience" THEN "work" ELSE bucket

\* C22: a search answered 200 with a type other than all leaves every bucket
\* but that type's empty; with type all or no type every bucket is searched:
\* from offset 0 a bucket whose category has matching rows is not empty.
\* A searched bucket has at most limit entries (20 without a limit), and all
\* its entries are rows that contain q in a searched field.
C22_SearchBuckets ==
    [][(Sent /\ last'.path = "/api/search" /\ last'.res.status = 200)
         => LET q == last'.params.q
                type == IF last'.params.type = Undefined
                        THEN "all" ELSE last'.params.type
                limit == IF last'.params.limit = Undefined
                         THEN 20 ELSE ParseInt(last'.params.limit).n
                res == last'.res.results
            IN  \A b \in Buckets :
                   /\ (type # "all" /\ type # TypeOf(b)) => res[b] = <<>>
                   /\ Len(res[b]) <= limit
                   /\ Listed(res)[b] \subseteq Found(q)[b]
                   /\ (/\ type \in {"all", TypeOf(b)}
                       /\ last'.params.offset = Undefined
                       /\ limit > 0
                       /\ Found(q)[b] # {})
                        => res[b] # <<>>]_vars

\* C22 witness: a search for JavaScript with type projects has found the
\* JavaScript project and nothing else while a JavaScript skill is stored.
C22_Witness ==
    /\ last.path = "/api/search" /\ last.res.status = 200
    /\ last.params.q = "JavaScript" /\ last.params.type = "projects"
    /\ Len(last.res.results.projects) = 1
    /\ last.res.results.skills = <<>>
    /\ \E r \in db.skills : r.skillName = "JavaScript"

\* What the claim says of one answer of GET /api/skills/top?limit=N: as many
\* entries as min(N, 50, distinct names), one per name, each with the number
\* of rows of its name, none with a higher frequency than one before it.
TopSkillsListed(entry) ==
    LET N == IF entry.params.limit = Undefined
             THEN 10 ELSE ParseInt(entry.params.limit).n
        names == {r.skillName : r \in db.skills}
        top == entry.res.skills
    IN  /\ Len(top) = Min(Min(N, 50), Cardinality(names))
        /\ \A i, j \in DOMAIN top : i # j => top[i].name # top[j].name
        /\ \A i \in DOMAIN top :
              top[i].frequency
                 = Cardinality({r \in db.skills : r.skillName = top[i].name})
        /\ \A i, j \in DOMAIN top : i < j => top[i].frequency >= top[j].frequency

\* C23 (as claimed): every answer of GET /api/skills/top is such a list, and
\* a request that follows an identical one with no response in between (so no
\* write to the store in between) gets the same list in the same order.
C23_TopSkillsRepeatable ==
    [][(Sent /\ last'.path = "/api/skills/top" /\ last'.res.status = 200)
         => /\ TopSkillsListed(last')
            /\ (/\ last.path = "/api/skills/top" /\ last.res.status = 200
                /\ last.params = last'.params)
                 => last'.res.skills = last.res.skills]_vars

-----------------------------------------------------------------------------
(* Stored skill levels.                                                     *)

\* C24 (as claimed): after every step each stored skill row has a level in
\* 1..5, and the rows a POST or PUT has just inserted for a skill given as a
\* plain string or without a level have level 1.
C24_SkillLevelsInRange ==
    [][/\ \A r \in db'.skills : r.proficiencyLevel \in 1..5
       /\ (Sent /\ last'.method \in {"POST", "PUT"}
                /\ last'.path = "/api/profile"
                /\ last'.res.status \in {200, 201})
            => \A sk \in Range(Supplied(req[last'.client].body.skills)) :
                  (sk.type = "string" \/ sk.level = 0)
                    => \E r \in db'.skills :
                          r.skillName = sk.name /\ r.proficiencyLevel = 1]_vars

-----------------------------------------------------------------------------
(* The transaction of PUT /api/profile.                                     *)

\* The tables as they were when the transaction of the PUT in progress began.
Before == IF tx.open THEN tx.before ELSE db

\* Whether a statement of the transaction of client p's PUT is bound to fail:
\* the update meets another profile with the body's email, or a replacement
\* row lacks a column the table requires.
StatementFails(p) ==
    \/ \E r \in Before.profiles :
          r.id # req[p].target /\ r.email = req[p].body.email
    \/ \E pr \in Range(Supplied(req[p].body.projects)) : pr.title = Undefined
    \/ \E w \in Range(Supplied(req[p].body.workExperience)) :
          w.company = Undefined \/ w.position = Undefined

\* C26: a PUT /api/profile whose transaction has a failing statement is
\* answered with an error, and every PUT answered with an error from inside
\* its transaction leaves all four tables as they were before it began.
C26_FailedPutRollsBack ==
    [][(/\ Sent /\ last'.method = "PUT" /\ last'.path = "/api/profile"
        /\ req[last'.client].pc \in {"put_update", "put_delete", "put_insert"})
         => /\ StatementFails(last'.client) => last'.res.status >= 400
            /\ last'.res.status >= 400 => db' = Before]_vars

\* C26 witness: a PUT whose replacement project has no title has been
\* answered with an error after the old rows were deleted inside the
\* transaction, and the profile's old project is still stored.
C26_Witness ==
    /\ last.method = "PUT" /\ last.res.status = 500
    /\ last.res.code = "INTERNAL_ERROR"
    /\ db.projects # {} /\ db.skills # {}
    /\ \A r \in db.projects : r.title # Undefined


-----------------------------------------------------------------------------
(* Errors raised with a status and a code.                                 *)

\* Every AppError the route handlers and the 404 handler raise.
HandlerErrors ==
    { AppError("Not found", 404, "NOT_FOUND"),
      AppError("No profiles found", 404, "PROFILES_NOT_FOUND"),
      AppError("Profile with this email already exists. Use PUT to update.",
               409, "PROFILE_EXISTS"),
      AppError("Profile not found", 404, "PROFILE_NOT_FOUND"),
      ItemRoute("projects").invalid, ItemRoute("projects").missing,
      ItemRoute("work").invalid, ItemRoute("work").missing }

\* The step answers a request whose handler raises the AppError e: GET on an
\* empty store, an authorized DELETE on an empty store, a DELETE by id whose
\* id does not parse or whose lookup finds no row.
Raises(e) ==
    \/ /\ e.code = "PROFILES_NOT_FOUND"
       /\ SentTo("GET") /\ db.profiles = {}
    \/ /\ e.code = "PROFILE_NOT_FOUND"
       /\ SentTo("DELETE") /\ last'.header = Bearer /\ db.profiles = {}
    \/ \E table \in {"projects", "work"} :
          /\ SentAtOnce /\ last'.method = "DELETE"
          /\ last'.path = ItemRoute(table).path /\ last'.header = Bearer
          /\ \/ e = ItemRoute(table).invalid /\ last'.id.nan
             \/ /\ e = ItemRoute(table).missing /\ ~last'.id.nan
                /\ \A r \in db[table] : r.id # last'.id.n

\* C25: every AppError a handler raises with status s and code c is answered
\* with exactly s and c, and the fallback codes DATABASE_ERROR and
\* INTERNAL_ERROR answer only errors that were not raised with a status and a
\* code of their own.
C25_AppErrorsAnsweredAsRaised ==
    [][Sent =>
         /\ \A e \in HandlerErrors :
               Raises(e) => /\ last'.res.status = e.statusCode
                            /\ last'.res.code = e.code
         /\ last'.res.code \in {"DATABASE_ERROR", "INTERNAL_ERROR"}
               => \A e \in HandlerErrors : ~Raises(e)]_vars

-----------------------------------------------------------------------------
(* Ownership of the child rows.                                            *)

Owners(S, r) == {pr \in S.profiles : pr.id = r.profileId}

Owned(S) ==
    \A table \in {"skills", "projects", "work"} :
        \A r \in S[table] : Cardinality(Owners(S, r)) = 1

\* C27: after any sequence of POST, PUT and DELETE /api/profile and DELETE by
\* id, every skill, project and work experience row belongs to exactly one
\* existing profile: no child row outlives its profile.
C27_ChildRowsOwned ==
    /\ Owned(db)
    /\ tx.open => Owned(tx.S.db)

\* Two profiles have been created, rows inserted after the first ones are
\* stored under an existing profile, and a project row was just deleted by id.
C27_Witness ==
    /\ db.profiles # {}
    /\ \E r \in db.skills \cup db.projects : r.id > 2
    /\ ids.profile > 2
    /\ last.method = "DELETE" /\ last.res.status = 200
    /\ last.path = ItemRoute("projects").path

-----------------------------------------------------------------------------
(* The target of PUT among several profiles.                               *)

\* The profile rows with the latest creation time.
Newest(S) == {r \in S.profiles : \A o \in S.profiles : o.createdAt <= r.createdAt}

ChildrenOf(S, pid) ==
    [table \in {"skills", "projects", "work"} |-> RowsOf(S[table], pid)]

PutSucceeds ==
    /\ Sent /\ last'.method = "PUT" /\ last'.path = "/api/profile"
    /\ last'.res.status = 200

\* C28: with several profiles stored, a successful PUT changes only the
\* profile with the latest creation time and its children; the scalar fields
\* and child rows of every other profile stay as they were.
C28_PutChangesOnlyLatest ==
    [][PutSucceeds =>
         /\ \A r \in Before.profiles \ Newest(Before) :
               /\ r \in db'.profiles
               /\ ChildrenOf(db', r.id) = ChildrenOf(Before, r.id)
         /\ {r.id : r \in db'.profiles} = {r.id : r \in Before.profiles}
         /\ \A r \in Newest(Before) :
               \E q \in db'.profiles :
                   /\ q.id = r.id
                   /\ q.name = req[last'.client].body.name
                   /\ q.email = req[last'.client].body.email]_vars

\* A PUT succeeded on the newer of two profiles, and the older one has
\* children that the PUT's body does not carry.
C28_Witness ==
    /\ last.method = "PUT" /\ last.res.status = 200
    /\ Cardinality(db.profiles) >= 2
    /\ \E r \in db.profiles \ Newest(db) :
          /\ RowsOf(db.projects, r.id) # {}
          /\ \E q \in Newest(db) : RowsOf(db.projects, q.id) = {}

-----------------------------------------------------------------------------
(* Requests that interleave with a PUT or with another POST.               *)

\* The PUT answered in this step had its target deleted after its lookup.
TargetGone ==
    /\ Sent /\ last'.method = "PUT" /\ last'.path = "/api/profile"
    /\ req[last'.client].pc = "put_update"
    /\ \A r \in db.profiles : r.id # req[last'.client].target

\* C29: a PUT that reports success has applied its changes to the profile
\* that is the most recently created one when the changes are committed, also
\* when a POST or DELETE of another request is processed between its lookup
\* and its transaction; a PUT whose target was deleted in between does not
\* report success and creates no rows.
C29_PutHitsLatestAtCommit ==
    [][/\ PutSucceeds =>
             \A r \in Newest(db') :
                 /\ r.id = req[last'.client].target
                 /\ r.name = req[last'.client].body.name
       /\ TargetGone => /\ last'.res.status # 200
                        /\ db' = db]_vars

\* The POST answered in this step passed its email check, and a profile with
\* its email was created before its own create ran.
LostRace ==
    /\ SentTo("POST") /\ req[last'.client].pc = "post_create"
    /\ \E r \in db.profiles : r.email = req[last'.client].body.email

\* C30: of two POSTs with the same email whose checks and inserts interleave,
\* exactly one creates a profile and the other is answered 409
\* PROFILE_EXISTS.
C30_ConcurrentDuplicateAnswered409 ==
    [][LostRace => /\ last'.res.status = 409
                   /\ last'.res.code = "PROFILE_EXISTS"
                   /\ db' = db]_vars

=============================================================================
